---- MODULE Spec2Model ----
(***************************************************************************)
(* appman: the ApplicationManager wrapper (appman.py), the registry        *)
(* (profiles/__init__.py) and the Base_Profile manager core                *)
(* (profiles/_base.py) as one sequential state machine.  A behaviour is a  *)
(* succession of process runs "appman MODE prog ..." over the same         *)
(* data.json file.                                                         *)
(***************************************************************************)
EXTENDS Integers, Sequences, FiniteSets, TLC

\* ------------------------------------------------------------------------
\* Bounds and input sets
\* ------------------------------------------------------------------------

\* longest list of program names given on one command line
MaxBatch == 2

\* number of times appman is started
MaxRuns == 3

\* number of external steps that fail (raise, or a download that does not
\* complete) in one behaviour
MaxFaults == 1

\* number of subclasses of Base_Profile, and of Meta_Profile, found by the
\* import of the profiles package
MaxClasses == 2

\* depth of nested install calls at which the interpreter raises
\* RecursionError (sys.getrecursionlimit() frames)
MaxDepth == 4

\* registered profile names, in sorted order
ProgOrder == <<"a", "b", "c">>

Progs == {ProgOrder[i] : i \in 1..Len(ProgOrder)}

\* strings _get_latest_version of a profile may return while the model runs
Versions(prog) == IF prog = "a" THEN {"", "1", "2"} ELSE {"1"}

NoDeps == [q \in Progs |-> {}]

\* the registries a run may be built with (class attributes of the profiles)
Registries ==
    { [dependences |-> [NoDeps EXCEPT !["b"] = {"a"}, !["c"] = {"b"}], x64_only |-> {}],
      [dependences |-> [NoDeps EXCEPT !["c"] = {"a", "b"}], x64_only |-> {}],
      [dependences |-> [NoDeps EXCEPT !["b"] = {"a"}, !["c"] = {"a"}], x64_only |-> {"a"}] }

\* ------------------------------------------------------------------------
\* Profile attributes and the values returned by the profile-specific methods
\* ------------------------------------------------------------------------

is_portable(prog) == prog # "b"

can_update(prog) == prog # "c"

default_path(prog) == IF prog = "c" THEN "c" ELSE ""

\* folders returned by _get_executables, already ending with a backslash
get_executables(prog) == IF prog = "a" THEN <<"a1", "a2">> ELSE <<prog>>

\* can_fail flag of each DownloadData returned by _get_download_data
get_download_data(prog) == IF prog = "b" THEN <<TRUE, FALSE>> ELSE <<FALSE>>

\* ------------------------------------------------------------------------
\* The registry built by the import of profiles/__init__.py
\* ------------------------------------------------------------------------

\* names in the order of sorted(): upper case letters come first
NameOrder == <<"A", "M", "a", "b", "m">>

Rank(name) == CHOOSE i \in 1..Len(NameOrder) : NameOrder[i] = name

\* str.lower()
Lower(name) ==
    CASE name = "A" -> "a"
      [] name = "M" -> "m"
      [] OTHER -> name

\* the subclasses of Base_Profile a profiles directory may hold:
\* program_name and dependences of each
ProfileClasses ==
    [program_name : {"a", "A", "b"}, dependences : {{}, {"a"}, {"b"}, {"A"}}]

\* the subclasses of Meta_Profile a profiles directory may hold
MetaClasses ==
    [meta_name : {"m", "M", "a"}, programs : {{}, {"a"}, {"m"}, {"a", "b"}}]

ClassLists(S) == UNION {[1..n -> S] : n \in 0..MaxClasses}

\* no class found yet, or the import is over
NoClasses == [profile_classes |-> <<>>, meta_classes |-> <<>>]

\* _PROFILES_KEYS
PROFILES_KEYS(reg) ==
    {Lower(reg.profile_classes[i].program_name) : i \in 1..Len(reg.profile_classes)}

\* _META_KEYS
META_KEYS(reg) ==
    {Lower(reg.meta_classes[i].meta_name) : i \in 1..Len(reg.meta_classes)}

\* the test of the number of keys left out
names_unique_unchecked(keys, classes) == TRUE

\* "len(_PROFILES_KEYS) != len(Base_Profile.__subclasses__())" does not hold,
\* and the same test of the meta-profiles
names_unique(keys, classes) == Cardinality(keys) = Len(classes)

\* the test of the empty set left out
meta_valid_unchecked(meta_name, prog_set, keys) ==
    /\ meta_name \notin prog_set
    /\ prog_set \subseteq keys

\* the three tests of the loop over _META.items()
meta_valid(meta_name, prog_set, keys) ==
    /\ prog_set # {}
    /\ meta_name \notin prog_set
    /\ prog_set \subseteq keys

\* the test of the own name left out
dependences_valid_unchecked(name, dep_set, keys) == dep_set \subseteq keys

\* the two tests of the loop over _PROFILES.items()
dependences_valid(name, dep_set, keys) ==
    /\ name \notin dep_set
    /\ dep_set \subseteq keys

\* no ImplementationError is raised while profiles/__init__.py is imported
import_succeeds(reg) ==
    /\ Lower("Generic_Profile") \notin PROFILES_KEYS(reg)
    /\ names_unique(PROFILES_KEYS(reg), reg.profile_classes)
    /\ Lower("Generic_Meta_Profile") \notin META_KEYS(reg)
    /\ names_unique(META_KEYS(reg), reg.meta_classes)
    /\ PROFILES_KEYS(reg) \cap META_KEYS(reg) = {}
    /\ \A i \in 1..Len(reg.meta_classes) :
          meta_valid(Lower(reg.meta_classes[i].meta_name), reg.meta_classes[i].programs,
                     PROFILES_KEYS(reg))
    /\ \A i \in 1..Len(reg.profile_classes) :
          dependences_valid(Lower(reg.profile_classes[i].program_name),
                            reg.profile_classes[i].dependences, PROFILES_KEYS(reg))

\* a dict comprehension keeps, for each key, the last class of that key
LastOf(keys, key) ==
    CHOOSE i \in 1..Len(keys) :
        keys[i] = key /\ \A j \in (i + 1)..Len(keys) : keys[j] # key

\* _PROFILES: the dependences of each key
PROFILES(reg) ==
    LET keys == [i \in 1..Len(reg.profile_classes) |-> Lower(reg.profile_classes[i].program_name)]
    IN [dependences |->
            [k \in PROFILES_KEYS(reg) |-> reg.profile_classes[LastOf(keys, k)].dependences],
        x64_only |-> {}]

\* _META: the programs of each key
META(reg) ==
    LET keys == [i \in 1..Len(reg.meta_classes) |-> Lower(reg.meta_classes[i].meta_name)]
    IN [k \in META_KEYS(reg) |-> reg.meta_classes[LastOf(keys, k)].programs]

\* sorted(list(S))
sorted(S) == SelectSeq(NameOrder, LAMBDA k : k \in S)

\* ------------------------------------------------------------------------
\* The ledger and its JSON document
\* ------------------------------------------------------------------------

EmptyDb == [dependences |-> <<>>, installed |-> <<>>]

SortedKeys(S) == SelectSeq(ProgOrder, LAMBDA k : k \in S)

\* lists written last element first
json_dump_reversed(d) ==
    LET keysD == SortedKeys(DOMAIN d.dependences)
        keysI == SortedKeys(DOMAIN d.installed)
        Reverse(l) == [i \in 1..Len(l) |-> l[Len(l) + 1 - i]]
    IN << <<"dependences",
            [i \in 1..Len(keysD) |-> <<keysD[i], Reverse(d.dependences[keysD[i]])>>]>>,
          <<"installed",
            [i \in 1..Len(keysI) |->
                <<keysI[i],
                  << <<"executables", Reverse(d.installed[keysI[i]].executables)>>,
                     <<"path", d.installed[keysI[i]].path>>,
                     <<"version", d.installed[keysI[i]].version>> >> >>]>> >>

\* json.dump(self._db, f, indent=4, sort_keys=True): members in key order,
\* lists in list order
json_dump(d) ==
    LET keysD == SortedKeys(DOMAIN d.dependences)
        keysI == SortedKeys(DOMAIN d.installed)
    IN << <<"dependences",
            [i \in 1..Len(keysD) |-> <<keysD[i], d.dependences[keysD[i]]>>]>>,
          <<"installed",
            [i \in 1..Len(keysI) |->
                <<keysI[i],
                  << <<"executables", d.installed[keysI[i]].executables>>,
                     <<"path", d.installed[keysI[i]].path>>,
                     <<"version", d.installed[keysI[i]].version>> >> >>]>> >>

Member(pairs, key) == (CHOOSE i \in 1..Len(pairs) : pairs[i][1] = key)

\* json.load(f): the dict of each object of the document
json_load(doc) ==
    LET deps == doc[Member(doc, "dependences")][2]
        inst == doc[Member(doc, "installed")][2]
        rec(o) == [executables |-> o[Member(o, "executables")][2],
                   path |-> o[Member(o, "path")][2],
                   version |-> o[Member(o, "version")][2]]
    IN [dependences |->
            [k \in {deps[i][1] : i \in 1..Len(deps)} |-> deps[Member(deps, k)][2]],
        installed |->
            [k \in {inst[i][1] : i \in 1..Len(inst)} |-> rec(inst[Member(inst, k)][2])]]

\* a file of the data directory: absent, a whole document, a partially
\* written document, or a document that is not JSON
Absent == [state |-> "absent", doc |-> <<>>]
Partial == [state |-> "partial", doc |-> <<>>]
Corrupt == [state |-> "corrupt", doc |-> <<>>]
Whole(doc) == [state |-> "whole", doc |-> doc]

\* ------------------------------------------------------------------------
\* State
\* ------------------------------------------------------------------------
VARIABLES
    registry,   \* the profile and meta-profile classes the import has yet to register
    profiles,   \* _PROFILES: dependences and x64_only of every profile
    meta,       \* _META: the programs of every meta-profile
    arch,       \* Base_Profile._arch of the host
    db,         \* ApplicationManager._db
    file,       \* data.json
    tmpfile,    \* data.json.tmp
    presave,    \* data.json as the _write_json in progress found it
    syspath,    \* entries registered on the system PATH
    dirs,       \* install directories present on the filesystem
    mode,       \* args['mode']
    programs,   \* args['programs'] still to process, current one first
    pc,         \* position of the process
    stack,      \* nested ApplicationManager calls, innermost last
    p,          \* the profile object running _manager
    exc,        \* exception being raised
    returned,   \* the ApplicationManager calls that returned during the current action
    ran,        \* programs whose install steps were started by the current action
    queried,    \* the version queries of the current action and their answers
    raised,     \* programs whose ApplicationManager call the current action left by an exception
    before,     \* self._db when the current action on a program of the list began
    downloads,  \* files written by the downloads of the current action that are on disk
    runs,       \* number of times appman was started
    faults      \* number of external steps that failed

vars == <<registry, profiles, meta, arch, db, file, tmpfile, presave, syspath, dirs, mode, programs,
          pc, stack, p, exc, returned, ran, queried, raised, before, downloads, runs, faults>>

world == <<registry, profiles, meta, arch, runs>>
disk == <<file, tmpfile, presave>>
system == <<syspath, dirs>>
history == <<ran, queried, raised, before, downloads>>

Modes == {"install", "update", "remove"}

\* exceptions raised by a step of a profile: "err" an Exception that is not an
\* EnvironmentError, "oserr" an EnvironmentError, "intr" KeyboardInterrupt or
\* SystemExit
StepFailures == {"err", "oserr", "intr"}

\* exceptions leaving _write_json: "dberr" is ProgramDBException
WriteFailures == {"dberr", "intr"}

NoProfile == [latest |-> "", dl |-> 0, executables |-> <<>>]

\* the lists of distinct program names given on a command line
Batches ==
    {b \in UNION {[1..n -> Progs] : n \in 1..MaxBatch} :
        \A i \in DOMAIN b, j \in DOMAIN b : b[i] = b[j] => i = j}

Frame(prog, todo) == [prog |-> prog, todo |-> todo]

Top == stack[Len(stack)]

Init ==
    /\ registry = NoClasses
    /\ meta = <<>>
    /\ profiles \in Registries
    /\ arch \in {"32", "64"}
    \* a 32 bit host differs from a 64 bit one only for x64_only profiles
    /\ arch = "32" => profiles.x64_only # {}
    /\ db = EmptyDb
    /\ file \in {Whole(json_dump(EmptyDb)), Absent, Corrupt}
    /\ tmpfile = Absent
    /\ presave = Absent
    /\ syspath = {}
    /\ dirs = {}
    /\ mode = "install"
    /\ programs = <<>>
    /\ pc = "start"
    /\ stack = <<>>
    /\ p = NoProfile
    /\ exc = "none"
    /\ returned = <<>>
    /\ ran = <<>>
    /\ queried = <<>>
    /\ raised = {}
    /\ before = EmptyDb
    /\ downloads = {}
    /\ runs = 1
    /\ faults = 0


\* ------------------------------------------------------------------------
\* Call and exception mechanics
\* ------------------------------------------------------------------------

\* the innermost call of st returns res: to the dependence loop of the
\* enclosing install, which ignores the value, or to the loop of appman_main
ReturnMsg(st, res, names) ==
    /\ returned' = Append(returned, [prog |-> st[Len(st)].prog, changed |-> res, names |-> names])
    /\ stack' = SubSeq(st, 1, Len(st) - 1)
    /\ p' = NoProfile
    /\ exc' = "none"
    /\ IF Len(st) > 1
       THEN pc' = "i_deps" /\ UNCHANGED programs
       ELSE pc' = "loop" /\ programs' = Tail(programs)
    /\ UNCHANGED faults

Return(st, res) == ReturnMsg(st, res, <<>>)

Raise(kind) ==
    /\ exc' = kind
    /\ pc' = "raise"
    /\ p' = NoProfile
    /\ UNCHANGED <<stack, programs, returned>>

\* an external step fails and raises kind
Fault(kind) ==
    /\ faults < MaxFaults
    /\ faults' = faults + 1
    /\ Raise(kind)

\* the handler written as "except AppManException"
caught_by_install_narrow(kind) == kind = "err"

\* "except Exception" around self.install(dep)
caught_by_install(kind) == kind \in {"err", "oserr", "dberr"}

\* the except clauses of appman_main: "skip" goes on with the next program
main_handler(kind) ==
    CASE kind \in {"oserr", "intr"} -> "exit"
      [] OTHER -> "skip"

\* an exception leaves the innermost call: the enclosing install catches it
\* and returns False, or it reaches appman_main
Unwind ==
    /\ pc = "raise"
    /\ IF Len(stack) > 1 /\ caught_by_install(exc)
       THEN /\ Return(SubSeq(stack, 1, Len(stack) - 1), FALSE)
            /\ raised' = raised \cup {Top.prog}
       ELSE /\ stack' = <<>>
            /\ exc' = "none"
            /\ p' = NoProfile
            /\ raised' = raised \cup {stack[i].prog : i \in 1..Len(stack)}
            /\ UNCHANGED returned
            /\ IF main_handler(exc) = "skip"
               THEN pc' = "loop" /\ programs' = Tail(programs)
               ELSE pc' = "exit" /\ UNCHANGED programs
            /\ UNCHANGED faults
    /\ UNCHANGED <<world, db, disk, system, mode, ran, queried, before, downloads>>

\* ------------------------------------------------------------------------
\* appman_init and appman_main
\* ------------------------------------------------------------------------

\* ApplicationManager.__init__ finds data.json and reads it; appman_init
\* builds the list of programs
\* the state before "from profiles import ..." of appman.py is executed
RegistryInit ==
    /\ registry \in [profile_classes : ClassLists(ProfileClasses),
                     meta_classes : ClassLists(MetaClasses)]
    /\ meta = <<>>
    /\ profiles = [dependences |-> <<>>, x64_only |-> {}]
    /\ arch = "64"
    /\ db = EmptyDb
    /\ file = Whole(json_dump(EmptyDb))
    /\ tmpfile = Absent
    /\ presave = Absent
    /\ syspath = {}
    /\ dirs = {}
    /\ mode = "install"
    /\ programs = <<>>
    /\ pc = "import"
    /\ stack = <<>>
    /\ p = NoProfile
    /\ exc = "none"
    /\ returned = <<>>
    /\ ran = <<>>
    /\ queried = <<>>
    /\ raised = {}
    /\ before = EmptyDb
    /\ downloads = {}
    /\ runs = 1
    /\ faults = 0

\* the import of the profiles package: _PROFILES and _META are built and
\* validated; an ImplementationError ends the process
ImportProfiles ==
    /\ pc = "import"
    /\ IF import_succeeds(registry)
       THEN /\ profiles' = PROFILES(registry)
            /\ meta' = META(registry)
            /\ pc' = "start"
       ELSE /\ pc' = "config_error"
            /\ UNCHANGED <<profiles, meta>>
    /\ UNCHANGED <<registry, arch, runs, db, disk, system, mode, programs, stack, p, exc,
                   returned, history, faults>>

\* names given on the command line
RequestNames == {"a", "b", "m"}

Requests == UNION {[1..n -> RequestNames] : n \in 1..MaxBatch}

\* expand_meta_program(name)
expand_meta_program(name) == sorted(meta[name])

\* get_supported_programs()
supported_programs == DOMAIN profiles.dependences

\* get_supported_meta_programs()
supported_meta_programs == DOMAIN meta

RECURSIVE expand_programs(_)
\* "for prog in args['programs']" of appman_init
expand_programs(args) ==
    IF args = <<>> THEN <<>>
    ELSE (IF Head(args) \notin supported_programs
          THEN expand_meta_program(Head(args))
          ELSE <<Head(args)>>) \o expand_programs(Tail(args))

\* appman_init for "install": the data file is loaded, meta-programs are
\* expanded and every name is looked up among the profiles
AppmanInitPrograms ==
    /\ pc = "start"
    /\ db' = json_load(file.doc)
    /\ mode' = "install"
    /\ \E args \in Requests :
         IF \E i \in DOMAIN args : args[i] \notin supported_programs \cup supported_meta_programs
         \* 'Cannot find "{}" profile'
         THEN pc' = "exit" /\ programs' = <<>>
         ELSE pc' = "loop" /\ programs' = expand_programs(args)
    /\ UNCHANGED <<world, disk, system, stack, p, exc, returned, history, faults>>

StartupLoad ==
    /\ pc = "start"
    /\ file.state = "whole"
    /\ db' = json_load(file.doc)
    /\ \E m \in Modes :
         /\ mode' = m
         /\ IF m = "update" /\ DOMAIN db'.installed = {}
            THEN pc' = "exit" /\ programs' = <<>>
            ELSE /\ pc' = "loop"
                 /\ \/ programs' \in Batches
                    \/ m = "update" /\ programs' = SortedKeys(DOMAIN db'.installed)
    /\ UNCHANGED <<world, disk, system, stack, p, exc, returned, history, faults>>

\* a data.json that cannot be read is replaced by an empty DB
StartupFail_recreate ==
    /\ pc = "start"
    /\ file.state # "absent"
    /\ file' = Whole(json_dump(EmptyDb))
    /\ pc' = "noinit"
    /\ UNCHANGED <<world, db, tmpfile, presave, system, mode, programs, stack, p, exc,
                   returned, history, faults>>

\* data.json exists but cannot be read or parsed
StartupFail ==
    /\ pc = "start"
    /\ file.state # "absent"
    /\ pc' = "noinit"
    /\ UNCHANGED <<world, db, disk, system, mode, programs, stack, p, exc, returned, history, faults>>

\* data.json does not exist: _write_json writes the temporary file, then
\* os.remove of the missing data.json raises
StartupCreate ==
    /\ pc = "start"
    /\ file.state = "absent"
    /\ tmpfile' \in {Whole(json_dump(db)), Partial, tmpfile}
    /\ pc' = "noinit"
    /\ UNCHANGED <<world, db, file, presave, system, mode, programs, stack, p, exc, returned, history, faults>>

\* every mode but remove dispatched to install
Entry_install(m) == IF m = "remove" THEN "r_check" ELSE "i_check"

\* getattr(appman_wrapper, args['mode'])
Entry(m) == CASE m = "install" -> "i_check"
              [] m = "update" -> "u_check"
              [] m = "remove" -> "r_check"

\* run_action(prog_name) for the next program of the list
RunAction ==
    /\ pc = "loop"
    /\ programs # <<>>
    /\ stack' = <<Frame(Head(programs), {})>>
    /\ pc' = Entry(mode)
    /\ returned' = <<>>
    /\ ran' = <<>>
    /\ queried' = <<>>
    /\ raised' = {}
    /\ before' = db
    /\ downloads' = {}
    /\ presave' = Absent
    /\ UNCHANGED <<world, db, file, tmpfile, system, mode, programs, p, exc, faults>>

Shutdown ==
    /\ pc = "loop"
    /\ programs = <<>>
    /\ pc' = "done"
    /\ presave' = Absent
    /\ UNCHANGED <<world, db, file, tmpfile, system, mode, programs, stack, p, exc, returned, history, faults>>

\* the process has ended; appman is started again on the same machine
Restart ==
    /\ pc \in {"done", "exit", "noinit"}
    /\ runs < MaxRuns
    /\ runs' = runs + 1
    /\ pc' = "start"
    /\ db' = EmptyDb
    /\ mode' = "install"
    /\ programs' = <<>>
    /\ returned' = <<>>
    /\ ran' = <<>>
    /\ queried' = <<>>
    /\ raised' = {}
    /\ before' = EmptyDb
    /\ downloads' = {}
    /\ presave' = Absent
    /\ UNCHANGED <<registry, profiles, meta, arch, file, tmpfile, system, stack, p, exc, faults>>

\* ------------------------------------------------------------------------
\* ApplicationManager._write_json
\* ------------------------------------------------------------------------

\* the document written to data.json itself
WriteTmp_in_place ==
    /\ pc = "w_tmp"
    /\ presave' = file
    /\ \/ /\ file' = Whole(json_dump(db))
          /\ Return(stack, TRUE)
       \/ /\ file' = Partial
          /\ \E kind \in WriteFailures : Fault(kind)
    /\ UNCHANGED <<world, db, tmpfile, system, mode, history>>

\* "with open(self._db_path_tmp, 'w') as f: json.dump(self._db, f, ...)"
WriteTmp ==
    /\ pc = "w_tmp"
    /\ presave' = file
    /\ \/ /\ tmpfile' = Whole(json_dump(db))
          /\ pc' = "w_remove"
          /\ UNCHANGED <<stack, programs, p, exc, returned, faults>>
       \/ /\ tmpfile' \in {tmpfile, Partial}
          /\ \E kind \in WriteFailures : Fault(kind)
    /\ UNCHANGED <<world, db, file, system, mode, history>>

\* "os.remove(self._db_path)"
WriteRemove ==
    /\ pc = "w_remove"
    /\ \/ /\ file.state # "absent"
          /\ file' = Absent
          /\ pc' = "w_rename"
          /\ UNCHANGED <<stack, programs, p, exc, returned, faults>>
       \/ /\ file.state # "absent"
          /\ UNCHANGED file
          /\ \E kind \in WriteFailures : Fault(kind)
       \* FileNotFoundError
       \/ /\ file.state = "absent"
          /\ UNCHANGED <<file, faults>>
          /\ Raise("dberr")
    /\ UNCHANGED <<world, db, tmpfile, presave, system, mode, history>>

\* "os.rename(self._db_path_tmp, self._db_path)", then the action returns True
WriteRename ==
    /\ pc = "w_rename"
    /\ \/ /\ file' = tmpfile
          /\ tmpfile' = Absent
          /\ Return(stack, TRUE)
       \/ /\ UNCHANGED <<file, tmpfile>>
          /\ \E kind \in WriteFailures : Fault(kind)
    /\ UNCHANGED <<world, db, presave, system, mode, history>>

\* the positions at which the process is running
Running ==
    {"loop", "raise", "i_check", "i_deps", "u_check", "r_check",
     "m_query", "m_dldata", "m_mkdir", "m_fetch", "m_extract",
     "m_install", "m_links", "m_update", "m_unlink", "m_remove", "m_deldir",
     "w_tmp", "w_remove", "w_rename"}

\* the process is killed: nothing more runs; a kill while the temporary file
\* is being written can leave it partly written
Kill ==
    /\ pc \in Running
    /\ faults < MaxFaults
    /\ faults' = faults + 1
    /\ pc' = "exit"
    /\ stack' = <<>>
    /\ p' = NoProfile
    /\ exc' = "none"
    /\ tmpfile' \in IF pc = "w_tmp" THEN {tmpfile, Partial} ELSE {tmpfile}
    /\ presave' = Absent
    /\ UNCHANGED <<world, db, file, system, mode, programs, returned, history>>

\* ------------------------------------------------------------------------
\* ApplicationManager.install
\* ------------------------------------------------------------------------

\* the test of install left out
already_installed_never(prog) == FALSE

\* "if prog_name in self._db['installed']" of install
already_installed(prog) == prog \in DOMAIN db.installed

\* "if not prog_name in self._db['installed']" of update and remove
not_installed(prog) == prog \notin DOMAIN db.installed

\* "if prog_name in self._db['installed']: return False", else the profile
\* is built and its dependences are read
InstallCheck ==
    /\ pc = "i_check"
    /\ IF already_installed(Top.prog)
       THEN Return(stack, FALSE)
       ELSE /\ stack' = [stack EXCEPT ![Len(stack)].todo = profiles.dependences[Top.prog]]
            /\ pc' = "i_deps"
            /\ UNCHANGED <<programs, p, exc, returned, faults>>
    /\ UNCHANGED <<world, db, disk, system, mode, history>>

\* install calls itself on the program it is installing
InstallDependence_self ==
    /\ pc = "i_deps"
    /\ Top.todo # {}
    /\ IF Len(stack) < MaxDepth
       THEN /\ \E dep \in Top.todo :
                 stack' = Append([stack EXCEPT ![Len(stack)].todo = @ \ {dep}],
                                 Frame(Top.prog, {}))
            /\ pc' = "i_check"
            /\ UNCHANGED <<programs, p, exc, returned, faults>>
       ELSE Raise("err") /\ UNCHANGED faults
    /\ UNCHANGED <<world, db, disk, system, mode, history>>

\* "for dep in dependences: self.install(dep)"; a set is iterated in any order
InstallDependence ==
    /\ pc = "i_deps"
    /\ Top.todo # {}
    /\ IF Len(stack) < MaxDepth
       THEN /\ \E dep \in Top.todo :
                 stack' = Append([stack EXCEPT ![Len(stack)].todo = @ \ {dep}], Frame(dep, {}))
            /\ pc' = "i_check"
            /\ UNCHANGED <<programs, p, exc, returned, faults>>
       \* RecursionError
       ELSE Raise("err") /\ UNCHANGED faults
    /\ UNCHANGED <<world, db, disk, system, mode, history>>

\* "if self.x64_only and self._arch == '32'" of _manager
arch_mismatch(prog) == prog \in profiles.x64_only /\ arch = "32"

\* "res = p.install()" once the loop over the dependences is over:
\* Base_Profile.install enters _manager('install')
InstallProfile ==
    /\ pc = "i_deps"
    /\ Top.todo = {}
    /\ IF arch_mismatch(Top.prog)
       THEN Return(stack, FALSE) /\ UNCHANGED ran
       ELSE /\ p' = [latest |-> "", dl |-> 1, executables |-> <<>>]
            /\ ran' = Append(ran, Top.prog)
            /\ pc' = "m_query"
            /\ UNCHANGED <<stack, programs, exc, returned, faults>>
    /\ UNCHANGED <<world, db, disk, system, mode, queried, raised, before, downloads>>

\* ------------------------------------------------------------------------
\* ApplicationManager.update
\* ------------------------------------------------------------------------

\* "if not prog_name in self._db['installed']", Base_Profile.update and the
\* two early exits of _manager
UpdateCheck ==
    /\ pc = "u_check"
    /\ IF \/ not_installed(Top.prog)
          \/ db.installed[Top.prog].version = ""
          \/ arch_mismatch(Top.prog)
          \/ ~ can_update(Top.prog)
       THEN Return(stack, FALSE)
       ELSE /\ p' = [latest |-> "", dl |-> 1, executables |-> <<>>]
            /\ pc' = "m_query"
            /\ UNCHANGED <<stack, programs, exc, returned, faults>>
    /\ UNCHANGED <<world, db, disk, system, mode, history>>

\* ------------------------------------------------------------------------
\* Base_Profile._manager, install and update
\* ------------------------------------------------------------------------

\* the profile object built without the version of the record
current_version_unset(prog) == ""

\* self._current_version of the profile object
current_version(prog) == IF mode = "install" THEN "" ELSE db.installed[prog].version

\* the working directory of the process
Cwd == "cwd"

\* os.path.abspath: the empty path is the working directory; the other paths
\* of the profiles are absolute and normalised
abspath(dir) == IF dir = "" THEN Cwd ELSE dir

\* self._path of the profile object: the default path when the profile is
\* built without arguments, else the absolute path of the path of the record
path(prog) ==
    IF mode = "install" THEN default_path(prog) ELSE abspath(db.installed[prog].path)

\* _check_dir: the working directory always exists and is not one of dirs
check_dir(dir) == dir = Cwd \/ dir \in dirs

\* "self._latest_version = self._get_latest_version()" and the version test
ManagerLatestVersion ==
    /\ pc = "m_query"
    /\ \/ /\ \E kind \in StepFailures : Fault(kind)
          /\ queried' = Append(queried, [prog |-> Top.prog, answered |-> FALSE, latest |-> ""])
       \/ \E v \in Versions(Top.prog) :
            /\ queried' = Append(queried, [prog |-> Top.prog, answered |-> TRUE, latest |-> v])
            /\ IF mode = "install" \/ v # current_version(Top.prog)
               THEN /\ p' = [p EXCEPT !.latest = v]
                    /\ pc' = "m_dldata"
                    /\ UNCHANGED <<stack, programs, exc, returned, faults>>
               ELSE Return(stack, FALSE)
    /\ UNCHANGED <<world, db, disk, system, mode, ran, raised, before, downloads>>

\* "self._dl_data_list = self._get_download_data()"
ManagerDownloadData ==
    /\ pc = "m_dldata"
    /\ \/ \E kind \in StepFailures : Fault(kind)
       \/ pc' = "m_mkdir" /\ UNCHANGED <<stack, programs, p, exc, returned, faults>>
    /\ UNCHANGED <<world, db, disk, system, mode, history>>

\* the directory is made and the downloads are left out
ManagerMakeDir_no_fetch ==
    /\ pc = "m_mkdir"
    /\ \/ /\ path(Top.prog) # ""
          /\ \E kind \in {"err", "intr"} : Fault(kind)
          /\ UNCHANGED dirs
       \/ /\ dirs' = IF path(Top.prog) # "" THEN dirs \cup ({path(Top.prog)} \ {Cwd}) ELSE dirs
          /\ pc' = "m_extract"
          /\ UNCHANGED <<stack, programs, p, exc, returned, faults>>
    /\ UNCHANGED <<world, db, disk, syspath, mode, history>>

\* "if self._path: self._make_dir(self._path)"; OSError becomes ImplementationError
ManagerMakeDir ==
    /\ pc = "m_mkdir"
    /\ \/ /\ path(Top.prog) # ""
          /\ \E kind \in {"err", "intr"} : Fault(kind)
          /\ UNCHANGED dirs
       \/ /\ dirs' = IF path(Top.prog) # "" THEN dirs \cup ({path(Top.prog)} \ {Cwd}) ELSE dirs
          /\ pc' = "m_fetch"
          /\ UNCHANGED <<stack, programs, p, exc, returned, faults>>
    /\ UNCHANGED <<world, db, disk, syspath, mode, history>>

\* outcomes of one _download_file: "http" is the HTTPRequestException of
\* _http_req, "stream" a RequestException or OSError inside the with block
FetchOutcomes == {"ok", "http", "timeout", "stream", "intr"}

\* what _download_file does with the outcome for a DownloadData
download_file(outcome, can_fail) ==
    CASE outcome = "ok" -> "next"
      [] outcome = "intr" -> "intr"
      [] outcome = "stream" -> IF can_fail THEN "next" ELSE "err"
      [] OTHER -> "err"

\* the files of dl_data.path on disk after one _download_file: the file is
\* opened once the request has been answered; a failure that is tolerated
\* deletes it, one that is not leaves what was written
downloaded(outcome, can_fail, files, dl) ==
    CASE outcome = "ok" -> {files \cup {dl}}
      [] outcome = "http" -> {files}
      [] outcome = "stream" -> IF can_fail THEN {files \ {dl}} ELSE {files \cup {dl}}
      [] OTHER -> {files, files \cup {dl}}

\* "for dl_data in self._dl_data_list: self._download_file(dl_data)"
ManagerDownload ==
    /\ pc = "m_fetch"
    /\ \E outcome \in FetchOutcomes :
         LET r == download_file(outcome, get_download_data(Top.prog)[p.dl])
         IN /\ IF outcome = "ok"
               THEN UNCHANGED faults
               ELSE faults < MaxFaults /\ faults' = faults + 1
            /\ downloads' \in downloaded(outcome, get_download_data(Top.prog)[p.dl],
                                          downloads, <<Top.prog, p.dl>>)
            /\ IF r = "next"
               THEN /\ p' = [p EXCEPT !.dl = @ + 1]
                    /\ pc' = IF p.dl = Len(get_download_data(Top.prog))
                             THEN "m_extract" ELSE "m_fetch"
                    /\ UNCHANGED <<stack, programs, exc, returned>>
               ELSE Raise(r)
    /\ UNCHANGED <<world, db, disk, system, mode, ran, queried, raised, before>>

\* "self._extract_latest_version()"
ManagerExtract ==
    /\ pc = "m_extract"
    /\ \/ \E kind \in StepFailures : Fault(kind)
       \/ /\ pc' = IF mode = "install" THEN "m_install" ELSE "m_update"
          /\ UNCHANGED <<stack, programs, p, exc, returned, faults>>
    /\ UNCHANGED <<world, db, disk, system, mode, history>>

\* the downloads of prog deleted from files
clean(files, prog) == {f \in files : f[1] # prog}

\* "self._install_program()", which also deletes the files downloaded
ManagerInstallProgram ==
    /\ pc = "m_install"
    /\ \/ /\ \E kind \in StepFailures : Fault(kind)
          /\ downloads' \in {downloads, clean(downloads, Top.prog)}
       \/ /\ pc' = "m_links"
          /\ downloads' = clean(downloads, Top.prog)
          /\ UNCHANGED <<stack, programs, p, exc, returned, faults>>
    /\ UNCHANGED <<world, db, disk, system, mode, ran, queried, raised, before>>

\* "executables = self._get_executables()" and one turn of
\* "self._syspath_add(ex); self._executables.append(ex)"
ManagerLinks ==
    /\ pc = "m_links"
    /\ Len(p.executables) < Len(get_executables(Top.prog))
    /\ \/ \E kind \in StepFailures : Fault(kind) /\ UNCHANGED syspath
       \/ LET ex == get_executables(Top.prog)[Len(p.executables) + 1]
          IN /\ syspath' = syspath \cup {ex}
             /\ p' = [p EXCEPT !.executables = Append(@, ex)]
             /\ UNCHANGED <<pc, stack, programs, exc, returned, faults>>
    /\ UNCHANGED <<world, db, disk, dirs, mode, history>>

\* Base_Profile.prog_data
prog_data(prog, executables, dir, version) ==
    (prog :> [executables |-> executables, path |-> dir, version |-> version])

\* the DB written without the dependents of the dependences
install_record_no_edges(d, prog, executables, version) ==
    [installed |-> (prog :> [executables |-> executables, path |-> default_path(prog),
                             version |-> version]) @@ d.installed,
     dependences |-> d.dependences]

RECURSIVE add_dependences_new_keys(_, _, _)
\* _add_dependences without its elif branch
add_dependences_new_keys(dependences, prog_name, deps) ==
    IF deps = <<>> THEN dependences
    ELSE add_dependences_new_keys(
             IF Head(deps) \notin DOMAIN dependences
             THEN (Head(deps) :> <<prog_name>>) @@ dependences
             ELSE dependences,
             prog_name, Tail(deps))

RECURSIVE add_dependences(_, _, _)
\* ApplicationManager._add_dependences: deps are taken in sorted order here,
\* the order does not change the result
add_dependences(dependences, prog_name, deps) ==
    IF deps = <<>> THEN dependences
    ELSE LET dep == Head(deps)
             new == IF dep \notin DOMAIN dependences
                    THEN (dep :> <<prog_name>>) @@ dependences
                    ELSE IF \A i \in 1..Len(dependences[dep]) : dependences[dep][i] # prog_name
                         THEN [dependences EXCEPT ![dep] = Append(@, prog_name)]
                         ELSE dependences
         IN add_dependences(new, prog_name, Tail(deps))

\* truth value of res[0], the version returned by Base_Profile.install
install_succeeded(version) == version # ""

\* the DB after "self._db['installed'].update(p.prog_data)" and
\* "self._add_dependences(prog_name, dependences)"
install_record(d, prog, executables, version) ==
    [installed |-> prog_data(prog, executables, default_path(prog), version) @@ d.installed,
     dependences |-> add_dependences(d.dependences, prog,
                                     SortedKeys(profiles.dependences[prog]))]

\* install returns True once the DB in memory is updated, without _write_json
InstallRecord_unsaved ==
    /\ pc = "m_links"
    /\ Len(p.executables) = Len(get_executables(Top.prog))
    /\ IF install_succeeded(p.latest)
       THEN /\ db' = install_record(db, Top.prog, p.executables, p.latest)
            /\ Return(stack, TRUE)
       ELSE Return(stack, FALSE) /\ UNCHANGED db
    /\ UNCHANGED <<world, disk, system, mode, history>>

\* _manager returns and ApplicationManager.install tests res[0]
InstallRecord ==
    /\ pc = "m_links"
    /\ Len(p.executables) = Len(get_executables(Top.prog))
    /\ IF install_succeeded(p.latest)
       THEN /\ db' = install_record(db, Top.prog, p.executables, p.latest)
            /\ pc' = "w_tmp"
            /\ UNCHANGED <<stack, programs, p, exc, returned, faults>>
       ELSE Return(stack, FALSE) /\ UNCHANGED db
    /\ UNCHANGED <<world, disk, system, mode, history>>

\* the record of the new version written before the update step has ended
ManagerUpdateProgram_record_first ==
    /\ pc = "m_update"
    /\ db' = [db EXCEPT !.installed =
                 prog_data(Top.prog, @[Top.prog].executables, path(Top.prog), p.latest) @@ @]
    /\ \/ /\ \E kind \in StepFailures : Fault(kind)
          /\ downloads' \in {downloads, clean(downloads, Top.prog)}
       \/ /\ pc' = "w_tmp"
          /\ downloads' = clean(downloads, Top.prog)
          /\ UNCHANGED <<stack, programs, p, exc, returned, faults>>
    /\ UNCHANGED <<world, disk, system, mode, ran, queried, raised, before>>

\* "self._update_program()", which also deletes the files downloaded, then
\* ApplicationManager.update records prog_data
ManagerUpdateProgram ==
    /\ pc = "m_update"
    /\ \/ /\ \E kind \in StepFailures : Fault(kind)
          /\ downloads' \in {downloads, clean(downloads, Top.prog)}
          /\ UNCHANGED db
       \/ /\ db' = [db EXCEPT !.installed =
                       prog_data(Top.prog, @[Top.prog].executables, path(Top.prog), p.latest) @@ @]
          /\ downloads' = clean(downloads, Top.prog)
          /\ pc' = "w_tmp"
          /\ UNCHANGED <<stack, programs, p, exc, returned, faults>>
    /\ UNCHANGED <<world, disk, system, mode, ran, queried, raised, before>>

\* ------------------------------------------------------------------------
\* ApplicationManager.remove and _manager('remove')
\* ------------------------------------------------------------------------

\* the test of the dependents left out
remove_blocked_never(prog) == FALSE

\* "if self._db['dependences'][prog_name]", a missing key does not block
remove_blocked(prog) ==
    prog \in DOMAIN db.dependences /\ db.dependences[prog] # <<>>

\* list.remove left out
Without_nothing(s, x) == s

\* the list after "self._db['dependences'][dep].remove(prog_name)"
Without(s, x) == SelectSeq(s, LAMBDA y : y # x)

\* the pops of remove without the loop over the lists of dependents
remove_record_keep_edges(d, prog) ==
    [installed |-> [k \in DOMAIN d.installed \ {prog} |-> d.installed[k]],
     dependences |-> [k \in DOMAIN d.dependences \ {prog} |-> d.dependences[k]]]

\* the DB after the pops of remove and "self._db['dependences'][dep].remove(prog_name)"
remove_record(d, prog) ==
    [installed |-> [k \in DOMAIN d.installed \ {prog} |-> d.installed[k]],
     dependences |-> [k \in DOMAIN d.dependences \ {prog} |-> Without(d.dependences[k], prog)]]

\* the remove steps left for the profile object of prog, whose _executables
\* is the list of the DB record
remove_step(d, prog) ==
    IF d.installed[prog].executables # <<>> THEN "m_unlink" ELSE "m_remove"

\* the checks of ApplicationManager.remove, Base_Profile.remove and the
\* architecture test of _manager
RemoveCheck ==
    /\ pc = "r_check"
    /\ IF not_installed(Top.prog)
       THEN Return(stack, FALSE) /\ UNCHANGED db
       ELSE IF remove_blocked(Top.prog)
       \* the message names the programs of self._db['dependences'][prog_name]
       THEN ReturnMsg(stack, FALSE, db.dependences[Top.prog]) /\ UNCHANGED db
       ELSE IF db.installed[Top.prog].version = ""
       THEN Return(stack, FALSE) /\ UNCHANGED db
       ELSE IF arch_mismatch(Top.prog)
            THEN /\ db' = remove_record(db, Top.prog)
                 /\ pc' = "w_tmp"
                 /\ UNCHANGED <<stack, programs, p, exc, returned, faults>>
            ELSE /\ pc' = remove_step(db, Top.prog)
                 /\ UNCHANGED <<db, stack, programs, p, exc, returned, faults>>
    /\ UNCHANGED <<world, disk, system, mode, history>>

\* one turn of "self._syspath_remove(l); self._executables.pop(0)"
ManagerUnlink ==
    /\ pc = "m_unlink"
    /\ \/ \E kind \in StepFailures : Fault(kind) /\ UNCHANGED <<db, syspath>>
       \/ /\ syspath' = syspath \ {Head(db.installed[Top.prog].executables)}
          /\ db' = [db EXCEPT !.installed[Top.prog].executables = Tail(@)]
          /\ pc' = remove_step(db', Top.prog)
          /\ UNCHANGED <<stack, programs, p, exc, returned, faults>>
    /\ UNCHANGED <<world, disk, dirs, mode, history>>

\* "if self.is_portable and self._path and self._check_dir(self._path)"
must_delete_dir(prog) ==
    is_portable(prog) /\ path(prog) # "" /\ check_dir(path(prog))

\* "self._remove_program()"
ManagerRemoveProgram ==
    /\ pc = "m_remove"
    /\ \/ \E kind \in StepFailures : Fault(kind) /\ UNCHANGED db
       \/ IF must_delete_dir(Top.prog)
          THEN pc' = "m_deldir" /\ UNCHANGED <<db, stack, programs, p, exc, returned, faults>>
          ELSE /\ db' = remove_record(db, Top.prog)
               /\ pc' = "w_tmp"
               /\ UNCHANGED <<stack, programs, p, exc, returned, faults>>
    /\ UNCHANGED <<world, disk, system, mode, history>>

\* "self._delete_dir(self._path)", then ApplicationManager.remove updates the DB
ManagerDeleteDir ==
    /\ pc = "m_deldir"
    /\ \/ \E kind \in StepFailures : Fault(kind) /\ UNCHANGED <<db, dirs>>
       \/ /\ dirs' = dirs \ {path(Top.prog)}
          /\ db' = remove_record(db, Top.prog)
          /\ pc' = "w_tmp"
          /\ UNCHANGED <<stack, programs, p, exc, returned, faults>>
    /\ UNCHANGED <<world, disk, syspath, mode, history>>

\* ------------------------------------------------------------------------

Next ==
    \/ StartupLoad \/ StartupFail \/ StartupCreate
    \/ RunAction \/ Shutdown \/ Restart \/ Unwind
    \/ InstallCheck \/ InstallDependence \/ InstallProfile \/ InstallRecord
    \/ UpdateCheck \/ RemoveCheck
    \/ ManagerLatestVersion \/ ManagerDownloadData \/ ManagerMakeDir
    \/ ManagerDownload \/ ManagerExtract \/ ManagerInstallProgram
    \/ ManagerLinks \/ ManagerUpdateProgram
    \/ ManagerUnlink \/ ManagerRemoveProgram \/ ManagerDeleteDir
    \/ WriteTmp \/ WriteRemove \/ WriteRename
    \/ Kill

Spec == Init /\ [][Next]_vars

\* the steps of the first run of appman, which nothing kills: the ledger is
\* empty at its start, so update and remove end at their checks
RunNext ==
    \/ StartupLoad \/ StartupFail \/ StartupCreate
    \/ RunAction \/ Shutdown \/ Unwind
    \/ InstallCheck \/ InstallDependence \/ InstallProfile \/ InstallRecord
    \/ RemoveCheck
    \/ ManagerLatestVersion \/ ManagerDownloadData \/ ManagerMakeDir
    \/ ManagerDownload \/ ManagerExtract \/ ManagerInstallProgram
    \/ ManagerLinks
    \/ WriteTmp \/ WriteRemove \/ WriteRename

\* one run in which every external step terminates: the process, which is
\* sequential, always takes its next step
RunSpec == Init /\ [][RunNext]_vars /\ WF_vars(RunNext)

\* the import of the profiles and the descent of install into the dependences
RegistryNext ==
    \/ ImportProfiles \/ AppmanInitPrograms
    \/ RunAction \/ InstallCheck \/ InstallDependence \/ Unwind

RegistrySpec == RegistryInit /\ [][RegistryNext]_vars

TypeOK ==
    /\ pc \in {"start", "loop", "done", "exit", "noinit", "raise",
               "i_check", "i_deps", "u_check", "r_check",
               "m_query", "m_dldata", "m_mkdir", "m_fetch", "m_extract",
               "m_install", "m_links", "m_update", "m_unlink", "m_remove", "m_deldir",
               "w_tmp", "w_remove", "w_rename"}
    /\ DOMAIN db.installed \subseteq Progs
    /\ DOMAIN db.dependences \subseteq Progs
    /\ Len(stack) <= Len(ProgOrder)

\* ------------------------------------------------------------------------
\* Properties
\* ------------------------------------------------------------------------

Installed == DOMAIN db.installed

\* the step is the kill of the process
KillStep == pc \in Running /\ pc' = "exit" /\ faults' # faults

Range(s) == {s[i] : i \in 1..Len(s)}

\* the dependents recorded for prog
Dependents(d, prog) == IF prog \in DOMAIN d.dependences THEN d.dependences[prog] ELSE <<>>

\* the positions of _manager between the version query and the last PATH
\* registration of an install
InstallSteps == {"m_query", "m_dldata", "m_mkdir", "m_fetch", "m_extract", "m_install", "m_links"}

\* the calls of the current action that returned True
Succeeded == {returned[i].prog : i \in {j \in 1..Len(returned) : returned[j].changed}}

\* C1: whenever the install steps of a profile run inside
\* ApplicationManager.install, every program of its dependences set is
\* recorded in db.installed
C1_DependencesInstalledFirst ==
    (mode = "install" /\ pc \in InstallSteps)
        => profiles.dependences[Top.prog] \subseteq Installed

\* C2: when the install of a dependence raises an error inside install(T),
\* install(T) returns False at once, unless the process is killed: its install
\* steps have not run and do not run, T is not recorded and no list of
\* dependents names T
C2_DependenceErrorAbortsInstall ==
    [][(pc = "raise" /\ Len(stack) >= 2 /\ exc \in {"err", "oserr", "dberr"} /\ ~ KillStep) =>
          LET T == stack[Len(stack) - 1].prog
          IN /\ stack' = SubSeq(stack, 1, Len(stack) - 2)
             /\ returned' = Append(returned, [prog |-> T, changed |-> FALSE, names |-> <<>>])
             /\ T \notin Range(ran')
             /\ T \notin DOMAIN db'.installed
             /\ db' = db
             /\ \A d \in DOMAIN db'.dependences : T \notin Range(db'.dependences[d])]_vars

\* an error was raised by the install of a dependence after another
\* dependence of the same program had been installed
C2_Witness ==
    /\ pc = "raise" /\ Len(stack) = 2 /\ exc \in {"err", "oserr"}
    /\ Succeeded # {}
    /\ Succeeded \subseteq profiles.dependences[stack[1].prog]

\* C3: in a chain A -> B -> C, when the install of C raises an error during
\* install(A), the install steps of neither B nor A run and neither is recorded
C3_FailureAbortsTransitively ==
    \A A \in Progs, B \in Progs, C \in Progs :
        ( /\ mode = "install"
          /\ B \in profiles.dependences[A]
          /\ C \in profiles.dependences[B]
          /\ stack # <<>>
          /\ stack[1].prog = A
          /\ C \in raised )
        => /\ A \notin Range(ran) /\ B \notin Range(ran)
           /\ A \notin Installed /\ B \notin Installed

\* the programs recorded as installed by the document of data.json
Persisted == IF file.state = "whole" THEN DOMAIN json_load(file.doc).installed ELSE {}

\* C4: when install(T) has ended after an error, every dependence that was
\* installed successfully during the call is still recorded as installed,
\* in db and in data.json
C4_NoRollback ==
    (mode = "install" /\ pc = "loop" /\ raised # {})
        => \A d \in Succeeded : d \in Installed /\ d \in Persisted

\* C5 as claimed: once a dependence D of T has been installed successfully
\* during install(T), T is in the dependents of D, also when T fails later
C5_EdgeOnceDependenceInstalled ==
    mode = "install" =>
        \A T \in {stack[i].prog : i \in 1..Len(stack)} \cup raised
                  \cup {returned[i].prog : i \in 1..Len(returned)} :
            \A D \in Succeeded \cap profiles.dependences[T] :
                T \in Range(Dependents(db, D))

\* C5: during a run, a program T enters the dependents of a program only in
\* the step of install(T) that records T as installed, after T's own install
\* steps; that step puts T in the dependents of every program of its
\* dependences set
C5_EdgesRecordedWithInstall ==
    [][(pc # "start" /\ db' # db) =>
         \A T \in Progs :
            /\ (\E D \in Progs : /\ T \notin Range(Dependents(db, D))
                                  /\ T \in Range(Dependents(db', D)))
                 => /\ pc = "m_links" /\ mode = "install" /\ Top.prog = T
                    /\ T \notin Installed
                    /\ T \in DOMAIN db'.installed
            /\ (T \notin Installed /\ T \in DOMAIN db'.installed)
                 => \A D \in profiles.dependences[T] : T \in Range(Dependents(db', D))]_vars

\* install(T) has ended with an error after a dependence D was installed for
\* it, and T is not in the dependents of D
C5_Witness ==
    /\ mode = "install" /\ pc = "loop"
    /\ \E T \in raised : \E D \in Succeeded \cap profiles.dependences[T] :
          D \in Installed /\ T \notin Range(Dependents(db, D))

Count(s, x) == Cardinality({i \in 1..Len(s) : s[i] = x})

\* every version query of the current action was answered with a version
\* that is not empty
VersionsFound == \A i \in 1..Len(queried) : queried[i].answered /\ queried[i].latest # ""

C7_RemoveRejectedWhileNeeded ==
    [][( /\ pc = "r_check"
         /\ Top.prog \in Installed
         /\ \/ Dependents(db, Top.prog) # <<>>
            \/ \E T \in Installed : Top.prog \in profiles.dependences[T]
         /\ ~ KillStep )
       => /\ UNCHANGED <<db, file, tmpfile, syspath, dirs>>
          /\ pc' = "loop"
          /\ returned' = <<[prog |-> Top.prog, changed |-> FALSE,
                            names |-> Dependents(db, Top.prog)]>>
          /\ \A T \in Installed :
                Top.prog \in profiles.dependences[T]
                    => T \in Range(returned'[1].names)]_vars

\* remove(P) was rejected for an installed P
C7_Witness ==
    /\ mode = "remove" /\ pc = "loop"
    /\ returned # <<>>
    /\ returned[1].prog \in Installed
    /\ ~ returned[1].changed
    /\ returned[1].names # <<>>

\* C8: when all the dependents of an installed program D have been removed,
\* a remove(D) that ends without an error deletes the record of D
C8_RemovableAfterDependents ==
    (mode = "remove" /\ pc = "loop" /\ raised = {} /\ returned # <<>>)
        => LET D == returned[1].prog
           IN ~ ( /\ D \in Installed
                  /\ D \in DOMAIN db.dependences
                  /\ db.dependences[D] = <<>> )

\* the programs the current action called ApplicationManager for
Called ==
    {stack[i].prog : i \in 1..Len(stack)} \cup raised
        \cup {returned[i].prog : i \in 1..Len(returned)}

\* C9: in update mode no step of the running process changes the set of installed programs, no
\* install is entered, no install steps run, and the only version queries
\* are those of the program being updated, a program of the list
C9_UpdateNeverInstalls ==
    [][(mode = "update" /\ pc \in Running /\ ~ KillStep)
       => /\ DOMAIN db'.installed = DOMAIN db.installed
          /\ Len(stack') <= 1
          /\ pc' \notin {"i_check", "i_deps"}
          /\ ran' = <<>>
          /\ Cardinality(Called') <= 1
          /\ \A i \in 1..Len(queried') : queried'[i].prog \in Called'
          /\ stack' # <<>> => programs' # <<>> /\ stack'[1].prog = Head(programs')]_vars

\* an installed program was queried by update while a program of its
\* dependences set is not installed
C9_Witness ==
    /\ mode = "update" /\ pc = "loop"
    /\ queried # <<>>
    /\ queried[1].prog \in Installed
    /\ \E D \in profiles.dependences[queried[1].prog] : D \notin Installed

\* C10: install(P) for a P recorded in db.installed returns False in one
\* step (the process not being killed): db, data.json, its temporary file, the PATH and the directories are
\* unchanged, no install steps start and no version is queried
C10_InstallOfInstalledIsNoop ==
    [][(pc = "i_check" /\ Top.prog \in Installed /\ ~ KillStep)
       => /\ UNCHANGED <<db, file, tmpfile, syspath, dirs, ran, queried, raised>>
          /\ stack' = SubSeq(stack, 1, Len(stack) - 1)
          /\ returned' = Append(returned, [prog |-> Top.prog, changed |-> FALSE,
                                           names |-> <<>>])]_vars

\* install(P) returned False for an installed P without starting anything
C10_Witness ==
    /\ mode = "install" /\ pc = "loop"
    /\ Len(returned) = 1
    /\ returned[1].prog \in Installed
    /\ ~ returned[1].changed
    /\ ran = <<>> /\ queried = <<>>

\* C11: when the process is killed after _write_json has written the
\* temporary file and before the rename has put it at data.json, data.json
\* exists with the content it had when the save began, which is what the
\* next start loads
C11_KillDuringSaveKeepsPrimary ==
    [][(pc \in {"w_remove", "w_rename"} /\ KillStep)
       => /\ file'.state = "whole"
          /\ file' = presave
          /\ json_load(file'.doc) = json_load(presave.doc)]_vars

\* the positions inside _write_json
SavePcs == {"w_tmp", "w_remove", "w_rename"}

\* C12: whatever a step of _write_json does, also one that fails or a kill,
\* data.json is then absent or holds a whole document: the one it held when
\* the save began or the serialization of the new DB
C12_PrimaryNeverPartial ==
    [][(pc \in SavePcs)
       => ( \/ file'.state = "absent"
            \/ /\ file'.state = "whole"
               /\ file' \in {IF pc = "w_tmp" THEN file ELSE presave,
                             Whole(json_dump(db))} )]_vars

\* a save failed or was killed while writing the temporary file, which is
\* partly written, and data.json holds a whole document
C12_Witness ==
    /\ pc \in {"raise", "exit"}
    /\ tmpfile = Partial
    /\ file.state = "whole"
    /\ json_load(file.doc) # db

\* C13: a start that finds no data.json initializes an empty DB and goes on
\* to run the requested action on the programs of the list
C13_StartupWithoutLedger ==
    [][(pc = "start" /\ file.state = "absent")
       => (pc' = "loop" /\ db' = EmptyDb /\ programs' # <<>>)]_vars

\* C14: a start that finds a data.json that is not a JSON document fails: the
\* DB, data.json, the PATH and the directories are unchanged, and the process
\* does nothing more before it ends
C14_CorruptLedgerIsFatal ==
    [][ /\ (pc = "start" /\ file.state \in {"corrupt", "partial"})
            => (pc' = "noinit" /\ UNCHANGED <<db, file, syspath, dirs>>)
        /\ pc = "noinit"
            => (pc' = "start" /\ UNCHANGED <<file, syspath, dirs>>) ]_vars

\* the start failed on a data.json that is not a JSON document
C14_Witness ==
    /\ pc = "noinit"
    /\ file.state = "corrupt"

\* C15: when _write_json fails during the action on a program, the exception
\* ends the run: the process exits and the programs left in the list are not
\* processed
C15_SaveFailureIsFatal ==
    [][(pc = "raise" /\ exc = "dberr" /\ ~ KillStep)
       => (pc' = "exit" /\ stack' = <<>> /\ programs' = programs)]_vars

\* C16: when a step of the action on a program of the list raises an error
\* that is neither an error of _write_json nor an interrupt, the program is
\* skipped and the loop goes on with the next program of the list
C16_OtherErrorsSkipProgram ==
    [][(pc = "raise" /\ Len(stack) = 1 /\ exc \in {"err", "oserr"} /\ ~ KillStep)
       => (pc' = "loop" /\ programs' = Tail(programs))]_vars

\* the positions inside _manager('install') and _manager('update')
ManagerPcs ==
    {"m_query", "m_dldata", "m_mkdir", "m_fetch", "m_extract", "m_install",
     "m_links", "m_update"}

\* C17: from the first step of T's own install or update to the step that
\* raises, and while the exception is handled, db and data.json do not
\* change: after a failed install T has no record, after a failed update its
\* record is the old one
C17_FailedActionLeavesLedger ==
    [][ /\ (pc \in ManagerPcs /\ pc' \in ManagerPcs \cup {"raise"})
            => UNCHANGED <<db, file>>
        /\ (pc \in ManagerPcs /\ pc' = "raise" /\ mode = "install")
            => Top.prog \notin DOMAIN db'.installed
        /\ (pc \in ManagerPcs /\ pc' = "raise" /\ mode = "update")
            => db'.installed[Top.prog] = db.installed[Top.prog]
        /\ pc = "raise" => UNCHANGED <<db, file>> ]_vars

\* the install of a failed while registering its second PATH entry, or an
\* update failed after a new version had been found
C17_Witness ==
    /\ pc = "raise" /\ Len(stack) = 1 /\ exc \in StepFailures
    /\ \/ /\ mode = "install"
          /\ "a1" \in syspath
          /\ "a" \notin Installed
       \/ /\ mode = "update"
          /\ queried # <<>>
          /\ queried[1].answered
          /\ queried[1].latest # db.installed[stack[1].prog].version

\* the positions inside _manager('remove')
RemovePcs == {"m_unlink", "m_remove", "m_deldir"}

\* C18: when a step of remove(P) raises an error (unregistering a PATH entry,
\* the uninstall action, the deletion of the directory), the record of P in
\* db, its executables included, is the one P had when the action began
C18_FailedRemoveLeavesRecord ==
    [][(pc \in RemovePcs /\ pc' = "raise")
       => /\ Top.prog \in DOMAIN db'.installed
          /\ db'.installed[Top.prog] = before.installed[Top.prog]]_vars

\* C19: during install or update, when the fetch of an artifact marked
\* can_fail fails, whatever the failure that is not an interrupt, the action
\* goes on with the next artifact or with the step after the downloads
C19_TolerantFetchContinues ==
    [][( /\ pc = "m_fetch"
         /\ get_download_data(Top.prog)[p.dl]
         /\ faults' # faults
         /\ ~ KillStep
         /\ exc' # "intr" )
       => /\ pc' \in {"m_fetch", "m_extract"}
          /\ p'.dl = p.dl + 1
          /\ stack' = stack]_vars

\* C20: when the version query of update(P) answers the version recorded for
\* P, update returns False at once: nothing is downloaded, extracted or
\* updated, and db, data.json, its temporary file, the PATH and the
\* directories are unchanged
C20_UpdateSameVersionIsNoop ==
    [][( /\ pc = "m_query" /\ mode = "update"
         /\ Len(queried') = Len(queried) + 1
         /\ queried'[Len(queried')].answered
         /\ queried'[Len(queried')].latest = db.installed[Top.prog].version )
       => /\ UNCHANGED <<db, file, tmpfile, syspath, dirs>>
          /\ pc' = "loop"
          /\ returned' = <<[prog |-> Top.prog, changed |-> FALSE, names |-> <<>>]>>]_vars

\* update(P) returned False after the query answered the recorded version
C20_Witness ==
    /\ mode = "update" /\ pc = "loop"
    /\ Len(queried) = 1 /\ Len(returned) = 1
    /\ queried[1].answered
    /\ queried[1].prog \in Installed
    /\ queried[1].latest = db.installed[queried[1].prog].version
    /\ ~ returned[1].changed

\* C21: when remove(P) has returned True, P is not in db.installed, is not a
\* key of db.dependences and is in no list of dependents; the other records
\* and the other memberships are those of the DB when the action began, and
\* data.json holds the serialization of db
C21_RemoveRecordsExactly ==
    (mode = "remove" /\ pc = "loop" /\ returned # <<>> /\ returned[1].changed)
        => LET P == returned[1].prog
           IN /\ P \notin DOMAIN db.installed
              /\ P \notin DOMAIN db.dependences
              /\ \A k \in DOMAIN db.dependences : P \notin Range(db.dependences[k])
              /\ DOMAIN db.installed = DOMAIN before.installed \ {P}
              /\ \A Q \in DOMAIN db.installed : db.installed[Q] = before.installed[Q]
              /\ DOMAIN db.dependences = DOMAIN before.dependences \ {P}
              /\ \A k \in DOMAIN db.dependences : \A Q \in Progs \ {P} :
                    Count(db.dependences[k], Q) = Count(before.dependences[k], Q)
              /\ file = Whole(json_dump(db))
              /\ json_load(file.doc) = db

\* remove(P) returned True for a P that was in the dependents of a program
\* still installed
C21_Witness ==
    /\ mode = "remove" /\ pc = "loop"
    /\ returned # <<>> /\ returned[1].changed
    /\ \E k \in DOMAIN before.dependences :
          /\ returned[1].prog \in Range(before.dependences[k])
          /\ k \in Installed

\* ------------------------------------------------------------------------
\* Properties of the registry, checked under RegistrySpec
\* ------------------------------------------------------------------------

\* the import is over and has raised nothing
Imported == pc \notin {"import", "config_error"}

\* the process is importing, or has ended in the import, and nothing of an
\* action has run
NothingRan ==
    /\ pc \in {"import", "config_error"}
    /\ stack = <<>>
    /\ programs = <<>>
    /\ ran = <<>>

\* two programs of the registry are each a dependence of the other
Cyclic(reg) ==
    \E i, j \in 1..Len(reg.profile_classes) :
        LET A == reg.profile_classes[i]
            B == reg.profile_classes[j]
        IN /\ Lower(A.program_name) # Lower(B.program_name)
           /\ Lower(B.program_name) \in A.dependences
           /\ Lower(A.program_name) \in B.dependences

\* C22: a registry in which two programs depend on each other does not get
\* past the import, or else install never enters a program whose install is
\* already in progress.
C22_CycleFailsFast ==
    Cyclic(registry) =>
        \/ ~ Imported
        \/ \A i, j \in 1..Len(stack) : stack[i].prog = stack[j].prog => i = j

\* no two names of the list are equal ignoring case
NoDuplicates(names) ==
    \A i, j \in 1..Len(names) : Lower(names[i]) = Lower(names[j]) => i = j

NamesDistinct(reg) ==
    /\ NoDuplicates([i \in 1..Len(reg.profile_classes) |-> reg.profile_classes[i].program_name])
    /\ NoDuplicates([i \in 1..Len(reg.meta_classes) |-> reg.meta_classes[i].meta_name])
    /\ \A i \in 1..Len(reg.profile_classes), j \in 1..Len(reg.meta_classes) :
          /\ reg.profile_classes[i].program_name # reg.meta_classes[j].meta_name
          /\ Lower(reg.profile_classes[i].program_name) # Lower(reg.meta_classes[j].meta_name)

\* C23: the import succeeds only if no program and no meta-program share a
\* name and neither the programs nor the meta-programs hold two names that
\* are equal ignoring case; otherwise the process ends in the import and
\* nothing of an action runs.
C23_NamesValidated == ~ NamesDistinct(registry) => NothingRan

\* the import has rejected a registry whose only defect is two programs
\* named alike ignoring case
C23_Witness ==
    /\ pc = "config_error"
    /\ registry.meta_classes = <<>>
    /\ registry.profile_classes = <<[program_name |-> "a", dependences |-> {}],
                                    [program_name |-> "A", dependences |-> {}]>>

\* no program depends on itself and every dependence is a registered
\* program; programs are registered under their lower case names
DependencesSound(reg) ==
    \A i \in 1..Len(reg.profile_classes) :
        LET c == reg.profile_classes[i]
        IN /\ c.program_name \notin c.dependences
           /\ Lower(c.program_name) \notin c.dependences
           /\ c.dependences \subseteq PROFILES_KEYS(reg)

\* C24: the import succeeds only if no program has its own name among its
\* dependences and every dependence is the name of a registered program;
\* otherwise the process ends in the import.
C24_DependencesValidated == ~ DependencesSound(registry) => NothingRan

\* the import has rejected a registry whose only defect is a program that
\* depends on itself
C24_Witness ==
    /\ pc = "config_error"
    /\ registry.meta_classes = <<>>
    /\ registry.profile_classes = <<[program_name |-> "a", dependences |-> {"a"}]>>

\* C25: once the import has succeeded, the expansion of every meta-program
\* is a non-empty list in strictly increasing order (so without duplicates)
\* of registered programs, none of them a meta-program; the list of programs
\* appman_init hands to the main loop holds registered programs only.
C25_ExpansionIsSound ==
    Imported =>
        /\ \A m \in supported_meta_programs :
              LET e == expand_meta_program(m)
              IN /\ e # <<>>
                 /\ \A i, j \in 1..Len(e) : i < j => Rank(e[i]) < Rank(e[j])
                 /\ Range(e) = meta[m]
                 /\ Range(e) \subseteq supported_programs
                 /\ Range(e) \cap supported_meta_programs = {}
        /\ Range(programs) \subseteq supported_programs

\* a meta-program of two programs has been expanded for the main loop
C25_Witness ==
    /\ pc = "loop"
    /\ "m" \in supported_meta_programs
    /\ expand_meta_program("m") = <<"a", "b">>
    /\ programs = <<"a", "b">>
    /\ supported_programs = {"a", "b"}

\* ------------------------------------------------------------------------
\* Properties of the ledger, checked under Spec
\* ------------------------------------------------------------------------

\* C26: for every document x that _write_json has written, to data.json or
\* to its temporary file, dumping what is loaded from x and then dumping what
\* is loaded from that gives the same document as the first dump.
C26_SerializationIdempotent ==
    [][(file' # file \/ tmpfile' # tmpfile) =>
          (\A f \in {file', tmpfile'} :
              f.state = "whole" =>
                  LET y == json_dump(json_load(f.doc))
                  IN json_dump(json_load(y)) = y)]_vars

\* a later run has loaded a data.json that holds a program with two
\* executables and a list of dependents
C26_Witness ==
    /\ runs > 1
    /\ pc = "loop"
    /\ file.state = "whole"
    /\ db = json_load(file.doc)
    /\ "a" \in DOMAIN db.installed
    /\ Len(db.installed["a"].executables) = 2
    /\ \E k \in DOMAIN db.dependences : Len(db.dependences[k]) = 2

\* the ledger after a, then b, then c have been recorded in an empty ledger,
\* with the executables and versions the ledger holds for them
RecordedInOrderABC ==
    LET rec(d, P) == install_record(d, P, db.installed[P].executables, db.installed[P].version)
    IN rec(rec(rec(EmptyDb, "a"), "b"), "c")

\* C27: when b and c both depend on a and the first run, started on an
\* empty ledger, has installed both without any failure, the ledger in memory
\* and the document in data.json are the ones that installing b and then c
\* gives, whichever of b and c was installed first.
C27_EdgesOrderIndependent ==
    ( /\ runs = 1
      /\ faults = 0
      /\ mode = "install"
      /\ pc = "loop"
      /\ programs = <<>>
      /\ profiles.dependences["b"] = {"a"}
      /\ profiles.dependences["c"] = {"a"}
      /\ DOMAIN db.installed = {"a", "b", "c"} )
        => /\ db.dependences["a"] = RecordedInOrderABC.dependences["a"]
           /\ db = RecordedInOrderABC
           /\ file = Whole(json_dump(RecordedInOrderABC))

\* C28: a KeyboardInterrupt raised by a step of an action, also inside the
\* install of a dependence, is caught by appman_main only, which ends the
\* process without running another install and without taking another
\* program of the batch; and when it is raised, every record of a program
\* that is not in progress, held by data.json before the step (before the
\* save, when the step is one of _write_json), is still in data.json.
C28_InterruptAbortsRun ==
    [][ /\ (pc = "raise" /\ exc = "intr")
            => ( /\ pc' = "exit"
                 /\ programs' = programs
                 /\ ran' = ran
                 /\ returned' = returned
                 /\ db' = db
                 /\ file' = file )
        /\ (exc # "intr" /\ exc' = "intr")
            => LET old == IF pc \in {"w_remove", "w_rename"} THEN presave ELSE file
               IN old.state = "whole"
                    => \A P \in DOMAIN json_load(old.doc).installed :
                          P \notin {stack[i].prog : i \in 1..Len(stack)}
                             => P \in Persisted' ]_vars

\* C29: when the install of a program has run all the steps of _manager
\* without an error and has registered all its executables, the step that
\* follows, unless the process is killed, records the program in the ledger
\* with the latest version and the registered executables and begins the
\* save, whatever the version is.
C29_CompletedInstallIsRecorded ==
    [][(/\ pc = "m_links"
        /\ Len(p.executables) = Len(get_executables(Top.prog))
        /\ ~ KillStep)
       => ( /\ Top.prog \in DOMAIN db'.installed
            /\ db'.installed[Top.prog].version = p.latest
            /\ db'.installed[Top.prog].executables = p.executables
            /\ pc' = "w_tmp" )]_vars

\* C30: in the step in which an action returns True for a program, to the
\* main loop or to the install of a dependent, data.json holds the whole
\* ledger as it is in memory, the record of that program included; and no
\* step taken between two actions changes the ledger or data.json, so the
\* state of the program is on disk when the action of any other program
\* starts.
C30_FlushedBeforeNextAction ==
    [][ /\ (returned' # returned /\ returned' # <<>> /\ returned'[Len(returned')].changed)
            => ( /\ pc' \in {"loop", "i_deps"}
                 /\ file' = Whole(json_dump(db'))
                 /\ json_load(file'.doc) = db'
                 /\ mode # "remove" => returned'[Len(returned')].prog \in Persisted' )
        /\ (pc \in {"loop", "i_deps"})
            => (file' = file /\ db' = db) ]_vars

\* a dependence has just been installed inside the install of a dependent,
\* whose own install is the next step
C30_Witness ==
    /\ mode = "install"
    /\ pc = "i_deps"
    /\ Top.todo = {}
    /\ returned # <<>>
    /\ returned[Len(returned)].changed
    /\ returned[Len(returned)].prog \in profiles.dependences[Top.prog]
    /\ returned[Len(returned)].prog \in Persisted
    /\ Top.prog \notin Persisted

\* ------------------------------------------------------------------------
\* Properties of the steps of an action, checked under Spec
\* ------------------------------------------------------------------------

\* the step of _manager a step may follow: each step is entered from the one
\* before it, once that one has returned without raising
EnteredInOrder ==
    /\ pc' = "m_query" => pc \in {"i_deps", "u_check"}
    /\ pc' = "m_dldata" => pc = "m_query"
    /\ pc' = "m_mkdir" => pc = "m_dldata"
    /\ pc' = "m_fetch" => pc \in {"m_mkdir", "m_fetch"}
    /\ pc' = "m_extract" => pc = "m_fetch" /\ p'.dl = Len(get_download_data(Top.prog)) + 1
    /\ pc' = "m_install" => pc = "m_extract" /\ mode = "install"
    /\ pc' = "m_update" => pc = "m_extract" /\ mode = "update"
    /\ pc' = "m_links" => pc = "m_install"

\* C31: in install and update mode a step of _manager is entered only from
\* the step before it in the order version query, download data, directory,
\* downloads (all of them before the extraction), extraction, install or
\* update action, PATH registration (install only), and only when that step
\* has not raised; the PATH changes only in the registration of an install;
\* the ledger changes only after the last step, in the step that begins the
\* save, and data.json changes only inside the save.
C31_StepsInOrder ==
    [][(mode # "remove" /\ pc \in Running /\ pc' # pc)
       => ( /\ EnteredInOrder
            /\ pc' \in ManagerPcs => exc' = "none" /\ exc = "none"
            /\ syspath' # syspath => mode = "install" /\ pc = "m_links"
            /\ db' # db
                 => /\ pc' = "w_tmp"
                    /\ \/ /\ mode = "install"
                          /\ pc = "m_links"
                          /\ Len(p.executables) = Len(get_executables(Top.prog))
                          /\ Range(p.executables) \subseteq syspath
                       \/ mode = "update" /\ pc = "m_update"
            /\ file' # file => pc \in SavePcs
            /\ pc' = "w_tmp" => db' # db \/ mode = "update" )]_vars

\* the install of b has fetched its two downloads and all the later steps
\* and has just recorded b, which is not yet in data.json
C31_Witness ==
    /\ mode = "install"
    /\ pc = "w_tmp"
    /\ Top.prog = "b"
    /\ p.dl = 3
    /\ "b" \in DOMAIN db.installed
    /\ "b" \notin Persisted

\* C32: the step of a successful update of P that records the new version
\* changes, in the ledger, the version of P's record and nothing else: P's
\* executables and path, the records of the other programs and the
\* dependents are the same; and no step of an update changes the PATH.
C32_UpdateChangesVersionOnly ==
    [][(mode = "update" /\ pc \in Running /\ ~ KillStep)
       => ( /\ syspath' = syspath
            /\ (pc = "m_update" /\ pc' = "w_tmp")
                 => LET P == Top.prog
                    IN /\ DOMAIN db'.installed = DOMAIN db.installed
                       /\ db'.installed[P].version = p.latest
                       /\ db'.installed[P].executables = db.installed[P].executables
                       /\ db'.installed[P].path = db.installed[P].path
                       /\ \A Q \in DOMAIN db.installed \ {P} : db'.installed[Q] = db.installed[Q]
                       /\ db'.dependences = db.dependences )]_vars

\* the programs whose profile object, and so its requests.Session, is alive:
\* the object is built after the test of i_check and deleted when the call
\* of ApplicationManager that built it is left
Connectors(st, at) ==
    {st[i].prog : i \in {j \in 1..Len(st) : j < Len(st) \/ at \notin {"i_check", "u_check", "r_check"}}}

\* C33: when the install or the update of a program ends, by a return or by
\* an exception, no file that its downloads wrote is on disk and its session
\* is closed.
C33_ResourcesReleased ==
    [][(mode # "remove" /\ Len(stack') < Len(stack) /\ ~ KillStep)
       => \A i \in (Len(stack') + 1)..Len(stack) :
             /\ clean(downloads', stack[i].prog) = downloads'
             /\ stack[i].prog \notin Connectors(stack', pc') ]_vars

\* C34: in every ledger the runs can reach, the remove of an installed
\* program whose list of dependents is missing or empty goes on to its
\* external steps and to the deletion of the record instead of returning
\* False at its checks; and the update of an installed program that can be
\* updated, on a host of its architecture, goes on to the version query.
C34_InstalledIsRemovableAndUpdatable ==
    [][ /\ (/\ pc = "r_check"
            /\ Top.prog \in DOMAIN db.installed
            /\ Range(Dependents(db, Top.prog)) = {}
            /\ ~ KillStep)
           => (returned' = returned /\ pc' \in RemovePcs \cup {"w_tmp"})
        /\ (/\ pc = "u_check"
            /\ Top.prog \in DOMAIN db.installed
            /\ can_update(Top.prog)
            /\ ~ arch_mismatch(Top.prog)
            /\ ~ KillStep)
           => (returned' = returned /\ pc' = "m_query") ]_vars

\* ------------------------------------------------------------------------
\* Invariants of the ledger, checked under Spec
\* ------------------------------------------------------------------------

\* the ledgers of a state: the one in memory and the one of data.json
Ledgers == {db} \cup (IF file.state = "whole" THEN {json_load(file.doc)} ELSE {})

\* C35: in every ledger, in memory or in data.json, a program whose list of
\* dependents is not empty is recorded as installed.
C35_DependedOnIsInstalled ==
    \A d \in Ledgers :
        \A D \in DOMAIN d.dependences :
            d.dependences[D] # <<>> => D \in DOMAIN d.installed

\* C36: the ledger is empty at first, and every step that changes the ledger
\* in memory or data.json leaves ledgers, in memory and in data.json, in
\* which every name of a list of dependents is the name of a program
\* recorded as installed and is in that list once.
C36_DependentsAreInstalledOnce ==
    [][(db' # db \/ file' # file)
       => (\A d \in {db'} \cup (IF file'.state = "whole" THEN {json_load(file'.doc)} ELSE {}) :
             \A D \in DOMAIN d.dependences :
                 \A i \in 1..Len(d.dependences[D]) :
                     /\ d.dependences[D][i] \in DOMAIN d.installed
                     /\ Count(d.dependences[D], d.dependences[D][i]) = 1)]_vars

\* c has been removed while b, the other dependent of a, stays: the list of
\* a has been pruned of c and saved
C36_Witness ==
    /\ mode = "remove"
    /\ pc = "loop"
    /\ returned # <<>>
    /\ returned[1].prog = "c"
    /\ returned[1].changed
    /\ "a" \in DOMAIN before.dependences
    /\ Count(before.dependences["a"], "c") = 1
    /\ Count(before.dependences["a"], "b") = 1
    /\ db.dependences["a"] = <<"b">>
    /\ file = Whole(json_dump(db))

\* C37: when no action is in progress, between two programs of the list or
\* at the end of the run, every entry the manager has on the PATH is one of
\* the executables of a record of the ledger in memory.
C37_PathEntriesAreRecorded ==
    pc \in {"loop", "done"}
        => syspath \subseteq UNION {Range(db.installed[P].executables) : P \in DOMAIN db.installed}

\* ------------------------------------------------------------------------
\* Termination of install, checked under RunSpec
\* ------------------------------------------------------------------------

RECURSIVE LongestChain(_, _)
\* the number of programs on the longest chain of dependences that starts at
\* prog and has at most n programs
LongestChain(prog, n) ==
    IF n = 0 THEN 0
    ELSE LET below == {LongestChain(d, n - 1) : d \in profiles.dependences[prog]}
         IN 1 + (IF below = {} THEN 0 ELSE CHOOSE m \in below : \A k \in below : k <= m)

\* C38: in a run on a registry without cycles, the calls of install in
\* progress are a chain of dependences that starts at the program of the
\* list, so they are never more than the programs of the longest such chain;
\* and every call of install, nested or not, is left in the end.
C38_InstallTerminates ==
    /\ [](mode = "install" /\ stack # <<>>
            => /\ \A i \in 1..(Len(stack) - 1) :
                     stack[i + 1].prog \in profiles.dependences[stack[i].prog]
               /\ Len(stack) <= LongestChain(stack[1].prog, Len(ProgOrder)))
    /\ \A n \in 1..Len(ProgOrder) :
          (mode = "install" /\ pc = "i_check" /\ Len(stack) = n) ~> (Len(stack) < n)

\* the install of c has called the install of b, which has called the
\* install of a, in the registry where c depends on b and b on a
C38_Witness ==
    /\ mode = "install"
    /\ Len(stack) = 3
    /\ stack[1].prog = "c" /\ stack[2].prog = "b" /\ stack[3].prog = "a"
    /\ LongestChain("c", Len(ProgOrder)) = 3
    /\ pc = "m_links"

====
